---- MODULE Spec2Model ----
(***************************************************************************)
(* A model of geo-util's GeoHash class (src/src/index.ts): the geohash     *)
(* codec (hashString, decodeGeohash), the neighbor resolver                *)
(* (getNeighborAsHashString, getAllNeighborsAsHashStrings) and the radius  *)
(* search (countHashesUntilDistance, getAllHashStringsWithinRadius).       *)
(*                                                                         *)
(* Numbers.  A coordinate is held in fixed point: an integer count of      *)
(* 1/Scale degrees.  Every bound and midpoint the codec computes for a     *)
(* hash of up to 8 characters is a multiple of 1/Scale degree, a dyadic    *)
(* rational that an IEEE double holds exactly, so the integer arithmetic   *)
(* below is the arithmetic of the code.                                    *)
(*                                                                         *)
(* Strings.  A string is a sequence of one-character strings, so that      *)
(* indexOf, slice, substr and concatenation can be modelled as the code    *)
(* uses them.                                                              *)
(***************************************************************************)
EXTENDS Integers, Sequences, FiniteSets, TLC

(* ------------------------------ bounds -------------------------------- *)

\* Longest hash string (and largest precision) the operations are given.
MaxLen == 3
\* The coordinates given to the encoder lie on a grid of CoordSteps steps
\* per axis, with one more step beyond the legal domain at either end.
CoordSteps == 24
\* Depth of nested calls after which the engine throws RangeError
\* ("Maximum call stack size exceeded").
MaxCallStack == 12
\* Longest hash string the radius search is run from.
MaxRadiusLen == 2

\* Fixed-point unit: 2^19 units per degree.
Scale == 2^19

(* --------------------------- string helpers --------------------------- *)

\* String.prototype.indexOf(c) for a search string c of at most one
\* character: 0 for the empty search string, -1 when c is absent.
IndexOf(str, c) ==
    IF c = <<>> THEN 0
    ELSE IF \E i \in 1..Len(str) : str[i] = c[1]
         THEN (CHOOSE i \in 1..Len(str) :
                  /\ str[i] = c[1]
                  /\ \A j \in 1..(i-1) : str[j] # c[1]) - 1
         ELSE -1

\* str[i] used in a string concatenation: an index outside the string
\* yields undefined, which concatenates as the text "undefined".
CharAt(str, i) ==
    IF i >= 0 /\ i < Len(str) THEN <<str[i+1]>>
    ELSE <<"u","n","d","e","f","i","n","e","d">>

\* hash.slice(-1): the last character, or "" for the empty string.
LastChar(hash) ==
    IF Len(hash) = 0 THEN <<>> ELSE <<hash[Len(hash)]>>

\* hash.substr(0, hash.length - 1): all but the last character (a negative
\* length yields "").
AllButLast(hash) ==
    IF Len(hash) = 0 THEN <<>> ELSE SubSeq(hash, 1, Len(hash) - 1)

(* ----------------------------- constants ------------------------------ *)

BITS == <<16, 8, 4, 2, 1>>

BASE32 ==
    <<"0","1","2","3","4","5","6","7","8","9","b","c","d","e","f","g",
      "h","j","k","m","n","p","q","r","s","t","u","v","w","x","y","z">>

NEIGHBORS ==
    [ e |-> [even |-> <<"b","c","0","1","f","g","4","5","2","3","8","9","6","7","d","e","u","v","h","j","y","z","n","p","k","m","s","t","q","r","w","x">>,
             odd  |-> <<"p","0","r","2","1","4","3","6","x","8","z","b","9","d","c","f","5","h","7","k","j","n","m","q","e","s","g","u","t","w","v","y">>],
      w |-> [even |-> <<"2","3","8","9","6","7","d","e","b","c","0","1","f","g","4","5","k","m","s","t","q","r","w","x","u","v","h","j","y","z","n","p">>,
             odd  |-> <<"1","4","3","6","5","h","7","k","9","d","c","f","e","s","g","u","j","n","m","q","p","0","r","2","t","w","v","y","x","8","z","b">>],
      n |-> [even |-> <<"p","0","r","2","1","4","3","6","x","8","z","b","9","d","c","f","5","h","7","k","j","n","m","q","e","s","g","u","t","w","v","y">>,
             odd  |-> <<"b","c","0","1","f","g","4","5","2","3","8","9","6","7","d","e","u","v","h","j","y","z","n","p","k","m","s","t","q","r","w","x">>],
      s |-> [even |-> <<"1","4","3","6","5","h","7","k","9","d","c","f","e","s","g","u","j","n","m","q","p","0","r","2","t","w","v","y","x","8","z","b">>,
             odd  |-> <<"2","3","8","9","6","7","d","e","b","c","0","1","f","g","4","5","k","m","s","t","q","r","w","x","u","v","h","j","y","z","n","p">>] ]

BORDER ==
    [ e |-> [even |-> <<"b","c","f","g","u","v","y","z">>,
             odd  |-> <<"p","r","x","z">>],
      w |-> [even |-> <<"0","1","4","5","h","j","n","p">>,
             odd  |-> <<"0","2","8","b">>],
      n |-> [even |-> <<"p","r","x","z">>,
             odd  |-> <<"b","c","f","g","u","v","y","z">>],
      s |-> [even |-> <<"0","2","8","b">>,
             odd  |-> <<"0","1","4","5","h","j","n","p">>] ]

(* ---------------------------- GeoCoordinate --------------------------- *)

\* new GeoCoordinate(lattitude, longitude)
GeoCoordinate(lattitude, longitude) ==
    [lat |-> lattitude, long |-> longitude]

(* -------------------------------- codec ------------------------------- *)

\* cd & mask, for a character code cd in -1..31 (indexOf's results) and a
\* one-bit mask: -1 is all ones in two's complement.
BitAnd(cd, mask) ==
    IF cd < 0 THEN mask ELSE ((cd \div mask) % 2) * mask

\* refine_interval: the upper half when the masked bit is set, else the
\* lower half.  interval is <<lo, hi>>; the refined interval is returned.
refine_interval(interval, cd, mask) ==
    IF BitAnd(cd, mask) # 0
    THEN <<(interval[1] + interval[2]) \div 2, interval[2]>>
    ELSE <<interval[1], (interval[1] + interval[2]) \div 2>>

\* The loops of decodeGeohash, flattened: step k = 5*i + j reads bit j of
\* character i; is_even alternates from true, so it is true on even k.
RECURSIVE DecodeLoop(_, _, _, _)
DecodeLoop(geohash, k, lat, lon) ==
    IF k >= 5 * Len(geohash) THEN [lat |-> lat, lon |-> lon]
    ELSE LET c    == <<geohash[(k \div 5) + 1]>>
             cd   == IndexOf(BASE32, c)
             mask == BITS[(k % 5) + 1]
         IN  IF k % 2 = 0
             THEN DecodeLoop(geohash, k + 1, lat, refine_interval(lon, cd, mask))
             ELSE DecodeLoop(geohash, k + 1, refine_interval(lat, cd, mask), lon)

\* decodeGeohash: the three coordinates it returns, in the order returned.
decodeGeohash(geohash) ==
    LET r   == DecodeLoop(geohash, 0, <<-90 * Scale, 90 * Scale>>,
                                      <<-180 * Scale, 180 * Scale>>)
        lat == r.lat
        lon == r.lon
    IN  << GeoCoordinate(lat[1], lon[1]),
           GeoCoordinate(lat[2], lon[2]),
           GeoCoordinate((lat[1] + lat[2]) \div 2, (lon[1] + lon[2]) \div 2) >>

\* A loop condition that holds while the hash is one character too long
\* as well.
LoopGuard_OffByOne(geohash, precision) ==
    Len(geohash) <= precision

\* The condition of hashString's while loop.
LoopGuard(geohash, precision) ==
    Len(geohash) < precision

\* The while loop of hashString.
RECURSIVE HashLoop(_, _, _, _, _, _, _, _)
HashLoop(coordinate, precision, is_even, lat, lon, bit, ch, geohash) ==
    IF ~LoopGuard(geohash, precision) THEN geohash
    ELSE LET mid  == IF is_even THEN (lon[1] + lon[2]) \div 2
                                ELSE (lat[1] + lat[2]) \div 2
             up   == IF is_even THEN coordinate.long > mid
                                ELSE coordinate.lat > mid
             ch2  == IF up THEN ch + BITS[bit + 1] ELSE ch
             lon2 == IF ~is_even THEN lon
                     ELSE IF up THEN <<mid, lon[2]>> ELSE <<lon[1], mid>>
             lat2 == IF is_even THEN lat
                     ELSE IF up THEN <<mid, lat[2]>> ELSE <<lat[1], mid>>
         IN  IF bit < 4
             THEN HashLoop(coordinate, precision, ~is_even, lat2, lon2,
                           bit + 1, ch2, geohash)
             ELSE HashLoop(coordinate, precision, ~is_even, lat2, lon2,
                           0, 0, geohash \o CharAt(BASE32, ch2))

\* An encoder that decides latitude first.
hashString_LatitudeFirst(coordinate, precision) ==
    HashLoop(coordinate, precision, FALSE, <<-90 * Scale, 90 * Scale>>,
             <<-180 * Scale, 180 * Scale>>, 0, 0, <<>>)

\* An encoder whose first bit is a longitude bit only for an even
\* precision.
hashString_ParityFromPrecision(coordinate, precision) ==
    HashLoop(coordinate, precision, precision % 2 = 0,
             <<-90 * Scale, 90 * Scale>>, <<-180 * Scale, 180 * Scale>>,
             0, 0, <<>>)

\* hashString(precision) of an object whose coordinate is `coordinate`.
hashString(coordinate, precision) ==
    HashLoop(coordinate, precision, TRUE, <<-90 * Scale, 90 * Scale>>,
             <<-180 * Scale, 180 * Scale>>, 0, 0, <<>>)

(* ------------------------- results of a call -------------------------- *)

\* A call either returns a value or throws: err is "" on a normal return
\* and the name of the error thrown otherwise.
Return(v) == [err |-> "", val |-> v]
Throw(e)  == [err |-> e, val |-> <<>>]

(* -------------------------- neighbor resolver ------------------------- *)

Cardinals == {"n", "s", "e", "w"}
Diagonals == {"nw", "ne", "se", "sw"}
Directions == Cardinals \cup Diagonals

\* The parity rows taken the other way round.
Evenness_Swapped(hash) ==
    IF Len(hash) % 2 # 0 THEN "even" ELSE "odd"

\* A parity that selects the 'even' rows for every hash.
Evenness_Constant(hash) ==
    "even"

\* evenness = (hash.length % 2) ? 'odd' : 'even'
Evenness(hash) ==
    IF Len(hash) % 2 # 0 THEN "odd" ELSE "even"

\* A border test whose northern border of an even-length hash names "y"
\* for "z".
OnBorder_Typo(direction, evenness, lastChar) ==
    IF direction = "n" /\ evenness = "even"
    THEN IndexOf(<<"p","r","x","y">>, lastChar) # -1
    ELSE IndexOf(BORDER[direction][evenness], lastChar) # -1

\* this.BORDER[direction][evenness].indexOf(lastChar) != -1
OnBorder(direction, evenness, lastChar) ==
    IndexOf(BORDER[direction][evenness], lastChar) # -1

\* Diagonal cases in which 'ne' steps west.
DiagonalSteps_CopyPaste ==
    [ nw |-> <<"n", "w">>, ne |-> <<"n", "w">>,
      se |-> <<"s", "e">>, sw |-> <<"s", "w">> ]

\* The two cardinal steps of each diagonal case, in the order the case
\* applies them.
DiagonalSteps ==
    [ nw |-> <<"n", "w">>, ne |-> <<"n", "e">>,
      se |-> <<"s", "e">>, sw |-> <<"s", "w">> ]

\* getNeighborAsHashString(direction, hash), called at nesting depth
\* `depth`.  The recursion on the parent has no base case of its own: a
\* call nested deeper than the engine's stack allows throws RangeError.
RECURSIVE getNeighborAsHashString(_, _, _)
getNeighborAsHashString(direction, hash, depth) ==
    IF depth > MaxCallStack THEN Throw("RangeError")
    ELSE
    LET lastChar == LastChar(hash)
        evenness == Evenness(hash)
        base     == AllButLast(hash)
    IN  IF direction \in Cardinals
        THEN LET base2 ==
                   IF OnBorder(direction, evenness, lastChar)
                   THEN getNeighborAsHashString(direction, base, depth + 1)
                   ELSE Return(base)
             IN  IF base2.err # "" THEN base2
                 ELSE Return(base2.val \o
                        CharAt(BASE32,
                               IndexOf(NEIGHBORS[direction][evenness], lastChar)))
        ELSE LET first == getNeighborAsHashString(DiagonalSteps[direction][1],
                                                  hash, depth + 1)
             IN  IF first.err # "" THEN first
                 ELSE getNeighborAsHashString(DiagonalSteps[direction][2],
                                              first.val, depth + 1)

\* The order in which getAllNeighborsAsHashStrings lists the neighbors.
NeighborOrder == <<"nw", "n", "ne", "e", "se", "s", "sw", "w">>

\* getAllNeighborsAsHashStrings(hash): the array literal's elements are
\* evaluated left to right; the first call that throws ends the method.
getAllNeighborsAsHashStrings(hash, depth) ==
    LET r == [i \in 1..Len(NeighborOrder) |->
                 getNeighborAsHashString(NeighborOrder[i], hash, depth + 1)]
    IN  IF \E i \in 1..Len(NeighborOrder) : r[i].err # ""
        THEN r[CHOOSE i \in 1..Len(NeighborOrder) :
                    /\ r[i].err # ""
                    /\ \A j \in 1..(i-1) : r[j].err = ""]
        ELSE Return([i \in 1..Len(NeighborOrder) |-> r[i].val])

(* ------------------------------- GeoHash ------------------------------ *)

\* The fields the constructor sets after this.geohash is known: the
\* destructuring assignment [northWest, southEast, centroid] =
\* decodeGeohash(), then the two derived corners.
Decoded(geohash) ==
    LET d  == decodeGeohash(geohash)
        nw == d[1]
        se == d[2]
    IN  [ northWest |-> nw,
          southEast |-> se,
          centroid  |-> d[3],
          northEast |-> GeoCoordinate(nw.lat, se.long),
          southWest |-> GeoCoordinate(se.lat, nw.long) ]

\* A string branch that takes the first decoded corner as the
\* coordinate.
NewFromString_CornerCoordinate(hash) ==
    LET d == Decoded(hash)
    IN  [ geohash    |-> hash,
          northWest  |-> d.northWest,
          southEast  |-> d.southEast,
          centroid   |-> d.centroid,
          northEast  |-> d.northEast,
          southWest  |-> d.southWest,
          coordinate |-> d.northWest ]

\* new GeoHash(coordinate: string)
NewFromString(hash) ==
    LET d == Decoded(hash)
    IN  [ geohash    |-> hash,
          northWest  |-> d.northWest,
          southEast  |-> d.southEast,
          centroid   |-> d.centroid,
          northEast  |-> d.northEast,
          southWest  |-> d.southWest,
          coordinate |-> d.centroid ]

\* new GeoHash(coordinate: GeoCoordinate, precision)
NewFromCoordinate(coordinate, precision) ==
    LET hash == hashString(coordinate, precision)
        d    == Decoded(hash)
    IN  [ geohash    |-> hash,
          northWest  |-> d.northWest,
          southEast  |-> d.southEast,
          centroid   |-> d.centroid,
          northEast  |-> d.northEast,
          southWest  |-> d.southWest,
          coordinate |-> coordinate ]

\* getAllCoordinates()
getAllCoordinates(o) ==
    <<o.northWest, o.northEast, o.southEast, o.southWest, o.centroid>>

(* ------------------------------ distance ------------------------------ *)

(***************************************************************************)
(* distanceTo is the spherical law of cosines.  Its trigonometry is held   *)
(* in fixed point, One = 2^28 standing for 1.0.  Math.sin and Math.cos are *)
(* tabulated at every 90/128 degree, which covers every corner and         *)
(* centroid of a hash of at most 3 characters.  A distance is held as the  *)
(* versine of the central angle, One - cos(angle): Math.acos and the       *)
(* factor to kilometres that follow in the code are strictly increasing in *)
(* it, so two distances compare in the model as they compare in the code,  *)
(* and 0 is 0.                                                             *)
(***************************************************************************)
Half == 2^14
One  == Half * Half

\* round(2^28 * sin(i * 90/128 degrees)), i = 0..128
SinTable ==
    <<
      0, 3294116, 6587736, 9880364, 13171504, 16460660, 19747337, 23031041,
      26311276, 29587548, 32859365, 36126234, 39387662, 42643158, 45892233, 49134396,
      52369160, 55596037, 58814541, 62024189, 65224495, 68414980, 71595161, 74764560,
      77922700, 81069105, 84203301, 87324817, 90433181, 93527927, 96608588, 99674700,
      102725802, 105761433, 108781137, 111784459, 114770946, 117740150, 120691622, 123624919,
      126539598, 129435221, 132311351, 135167556, 138003405, 140818471, 143612330, 146384562,
      149134749, 151862477, 154567334, 157248915, 159906814, 162540633, 165149973, 167734442,
      170293651, 172827214, 175334750, 177815881, 180270234, 182697439, 185097131, 187468947,
      189812531, 192127530, 194413596, 196670384, 198897553, 201094770, 203261702, 205398024,
      207503414, 209577554, 211620133, 213630842, 215609380, 217555448, 219468752, 221349006,
      223195925, 225009231, 226788652, 228533919, 230244771, 231920948, 233562198, 235168275,
      236738937, 238273946, 239773073, 241236090, 242662778, 244052922, 245406313, 246722746,
      248002024, 249243953, 250448347, 251615025, 252743810, 253834534, 254887030, 255901142,
      256876715, 257813604, 258711668, 259570770, 260390782, 261171580, 261913046, 262615070,
      263277544, 263900370, 264483453, 265026706, 265530048, 265993401, 266416696, 266799871,
      267142866, 267445630, 267708119, 267930291, 268112114, 268253560, 268354608, 268415243,
      268435456 >>

\* One quarter turn, and the table's step, in 1/Scale degrees.
Quarter   == 90 * Scale
TableStep == Quarter \div 128

Abs(x) == IF x < 0 THEN -x ELSE x

\* a * b for fixed-point a, b in [-One, One], without leaving 32 bits.
Mul(a, b) ==
    LET x  == Abs(a)
        y  == Abs(b)
        x1 == x \div Half
        x0 == x % Half
        y1 == y \div Half
        y0 == y % Half
        m  == x1 * y1 + ((x1 * y0 + x0 * y1 + ((x0 * y0) \div Half)) \div Half)
    IN  IF (a < 0) = (b < 0) THEN m ELSE -m

\* Math.sin and Math.cos of an angle given in 1/Scale degrees, for
\* angles in -360..360 degrees that are multiples of TableStep.
Cos(angle) ==
    LET a == Abs(angle)
        b == IF a > 2 * Quarter THEN 4 * Quarter - a ELSE a
    IN  IF b <= Quarter
        THEN SinTable[((Quarter - b) \div TableStep) + 1]
        ELSE -SinTable[((b - Quarter) \div TableStep) + 1]

Sin(angle) ==
    LET a == Abs(angle)
        b == IF a > 2 * Quarter THEN a - 2 * Quarter ELSE a
        v == IF b <= Quarter
             THEN SinTable[(b \div TableStep) + 1]
             ELSE SinTable[((2 * Quarter - b) \div TableStep) + 1]
        m == IF a > 2 * Quarter THEN -v ELSE v
    IN  IF angle < 0 THEN -m ELSE m

\* this.distanceTo(where), as a versine (see above).
distanceTo(this, where) ==
    IF this.lat = where.lat /\ this.long = where.long THEN 0
    ELSE LET theta    == this.long - where.long
             distance == Mul(Sin(this.lat), Sin(where.lat))
                         + Mul(Mul(Cos(this.lat), Cos(where.lat)), Cos(theta))
             clamped  == IF distance > One THEN One ELSE distance
         IN  One - clamped

(* ---------------------------- radius search --------------------------- *)

\* o.getAllCoordinates().map(c => c.distanceTo(centroid))
\*  .filter(d => d <= distance).length
PointsInScope(o, centroid, distance) ==
    LET cs == getAllCoordinates(o)
    IN  Cardinality({i \in 1..Len(cs) : distanceTo(cs[i], centroid) <= distance})

RECURSIVE CountLoop(_, _, _, _, _, _, _)

\* One pass of the while loop's body, `next` being the neighbor the pass
\* looked up: the neighbor is decoded, its points in range are counted,
\* the counter is incremented and the loop condition is tested again.
CountLoopBody(this, distance, direction, points, next, counter, depth) ==
    IF next.err # "" THEN next
    ELSE IF PointsInScope(NewFromString(next.val), this.centroid, distance)
               >= points
         THEN CountLoop(this, distance, direction, points, next.val,
                        counter + 1, depth)
         ELSE Return(counter + 1)

\* The while loop of countHashesUntilDistance, entered with
\* pointsInScope >= points.
CountLoop(this, distance, direction, points, hash, counter, depth) ==
    CountLoopBody(this, distance, direction, points,
                  getNeighborAsHashString(direction, hash, depth + 1),
                  counter, depth)

\* countHashesUntilDistance(distance, direction, points): pointsInScope
\* starts at 5 and points is at most 5, so the loop is entered.
countHashesUntilDistance(this, distance, direction, points, depth) ==
    IF 5 >= points
    THEN CountLoop(this, distance, direction, points, this.geohash, 0, depth)
    ELSE Return(0)

RECURSIVE RowLoop(_, _, _, _, _, _)

\* One pass of the inner for loop's body, `w` and `e` being the two
\* neighbors the pass looked up: both are pushed and become the row's
\* current cells.
RowLoopBody(w, e, westCounter, searchWest, hashes, depth) ==
    IF w.err # "" THEN w
    ELSE IF e.err # "" THEN e
    ELSE RowLoop(w.val, e.val, westCounter + 1, searchWest,
                 hashes \o <<w.val, e.val>>, depth)

\* The inner for loop of a row: westCounter steps to the west and to the
\* east of the row's cell, each pushed as it is reached.
RowLoop(currentWest, currentEast, westCounter, searchWest, hashes, depth) ==
    IF ~(westCounter < searchWest) THEN Return(hashes)
    ELSE RowLoopBody(getNeighborAsHashString("w", currentWest, depth + 1),
                     getNeighborAsHashString("e", currentEast, depth + 1),
                     westCounter, searchWest, hashes, depth)

RECURSIVE RowsLoop(_, _, _, _, _, _, _)

\* One pass of an outer for loop's body, `row` being the list after the
\* row was pushed and `next` the cell the pass steps to.
RowsLoopBody(direction, row, next, rowCounter, limit, searchWest, depth) ==
    IF row.err # "" THEN row
    ELSE IF next.err # "" THEN next
    ELSE RowsLoop(direction, next.val, rowCounter + 1, limit, searchWest,
                  row.val, depth)

\* One of the two outer for loops: `limit` rows from currentRow, stepping
\* in `direction` after each row.
RowsLoop(direction, currentRow, rowCounter, limit, searchWest, hashes, depth) ==
    IF ~(rowCounter < limit) THEN Return(hashes)
    ELSE RowsLoopBody(direction,
                      RowLoop(currentRow, currentRow, 0, searchWest,
                              hashes \o <<currentRow>>, depth),
                      getNeighborAsHashString(direction, currentRow, depth + 1),
                      rowCounter, limit, searchWest, depth)

\* The southern half of the candidate list, `north` being the list after
\* the northern rows and `first` the center's southern neighbor.
SouthRows(north, first, searchNorth, searchWest, depth) ==
    IF north.err # "" THEN north
    ELSE IF first.err # "" THEN first
    ELSE RowsLoop("s", first.val, 0, searchNorth, searchWest, north.val, depth)

\* The candidate list `hashes` of getAllHashStringsWithinRadius, as the
\* hash strings the GeoHash objects are built from: the rows from the
\* center northwards, then the rows from the center's southern neighbor
\* southwards.  Both row loops run to searchNorth.
Candidates(this, searchNorth, searchSouth, searchWest, depth) ==
    SouthRows(RowsLoop("n", this.geohash, 0, searchNorth, searchWest,
                       <<>>, depth),
              getNeighborAsHashString("s", this.geohash, depth + 1),
              searchNorth, searchWest, depth)

\* A filter that keeps a cell only when more than `points` of its points
\* are in range.
Filter_Strict(hashes, centroid, distance, points) ==
    SelectSeq(hashes,
              LAMBDA h : PointsInScope(NewFromString(h), centroid, distance)
                            > points)

\* hashes.filter(...): the candidates with at least `points` points in
\* range of the center's centroid, in their order.
Filter(hashes, centroid, distance, points) ==
    SelectSeq(hashes,
              LAMBDA h : PointsInScope(NewFromString(h), centroid, distance)
                            >= points)

\* The filter applied to the candidate list, unless building it threw.
Filtered(this, distance, points, hashes) ==
    IF hashes.err # "" THEN hashes
    ELSE Return(Filter(hashes.val, this.centroid, distance, points))

\* getAllHashStringsWithinRadius after its three probes: the candidate
\* list is built and filtered, unless a probe threw.
SearchBox(this, distance, points, searchNorth, searchSouth, searchWest, depth) ==
    IF searchNorth.err # "" THEN searchNorth
    ELSE IF searchSouth.err # "" THEN searchSouth
    ELSE IF searchWest.err # "" THEN searchWest
    ELSE Filtered(this, distance, points,
                  Candidates(this, searchNorth.val, searchSouth.val,
                             searchWest.val, depth))

\* getAllHashStringsWithinRadius(distance, points)
getAllHashStringsWithinRadius(this, distance, points, depth) ==
    SearchBox(this, distance, points,
              countHashesUntilDistance(this, distance, "n", points, depth + 1),
              countHashesUntilDistance(this, distance, "s", points, depth + 1),
              countHashesUntilDistance(this, distance, "w", points, depth + 1),
              depth)

(* ------------------------------- inputs ------------------------------- *)

\* precision's default value
DefaultPrecision == 8

Chars == {BASE32[i] : i \in 1..Len(BASE32)}

\* The hash strings given to the operations: every string of one or two
\* characters, and the longer strings whose last two characters are free
\* and whose earlier characters are a south-west corner cell ("0"), an
\* inner cell ("7", "s") or a north-east corner cell ("z") of their parent.
PrefixChars == {"0", "7", "s", "z"}

RECURSIVE PrefixStrings(_)
PrefixStrings(n) ==
    IF n = 0 THEN {<<>>}
    ELSE {Append(p, c) : p \in PrefixStrings(n - 1), c \in PrefixChars}

HashesOfLen(n) ==
    IF n = 1 THEN {<<c>> : c \in Chars}
    ELSE {p \o <<a, b>> : p \in PrefixStrings(n - 2), a \in Chars, b \in Chars}

\* The hash strings of the repository's tests.
TestHashes ==
    { <<"d","q","c","j","q","c","p","s">>, <<"d","q","c","j","q","c","p">>,
      <<"d","q","c","j","n","s">>, <<"d","r","t","2","y">> }

Hashes == UNION {HashesOfLen(n) : n \in 1..MaxLen} \cup TestHashes

\* Strings the constructor accepts (its parameter is any string) that hold
\* a character outside BASE32: "a", "i", "l", "o" and the capitals.
InvalidHashes ==
    { <<"a">>, <<"i", "0">>, <<"9", "l">>, <<"s", "o", "z">>, <<"D">> }

\* The coordinates of the repository's tests, to the nearest 1/Scale degree.
WhiteHouse == GeoCoordinate(20393688, -40389318)
Pentagon   == GeoCoordinate(20380068, -40399688)
Hub        == GeoCoordinate(22206411, -37256171)

\* The coordinates given to the encoder: a grid over the legal domain,
\* domain bounds and bisection midpoints among its points, one step beyond
\* the domain on every side, and the tests' coordinates.
LatStep  == (180 * Scale) \div CoordSteps
LongStep == (360 * Scale) \div CoordSteps
GridLat ==
    {-90 * Scale + i * LatStep : i \in -1..(CoordSteps + 1)}
        \cup {90 * Scale}
GridLong ==
    {-180 * Scale + i * LongStep : i \in -1..(CoordSteps + 1)}
        \cup {180 * Scale}
Coordinates ==
    {GeoCoordinate(la, lo) : la \in GridLat, lo \in GridLong}
        \cup {WhiteHouse, Pentagon, Hub}

Precisions == (-1..MaxLen) \cup {DefaultPrecision}

\* The legal domain of a coordinate.
InDomain(c) ==
    /\ -90 * Scale <= c.lat /\ c.lat <= 90 * Scale
    /\ -180 * Scale <= c.long /\ c.long <= 180 * Scale

\* The radius search's inputs: the centers, and the distances (versines):
\* 0, and about 300 km, 725 km, 950 km and 1500 km.
RadiusCenters ==
    {h \in Hashes : /\ Len(h) <= MaxRadiusLen
                    /\ \A i \in 1..(Len(h) - 1) : h[i] \in PrefixChars}
Distances == {0, 300000, 1750000, 3000000, 7500000}
Points == 1..5

(* ---------------------------- state machine --------------------------- *)

(***************************************************************************)
(* A behaviour is one client expression: an object is constructed, and one *)
(* method is called on it.  Every field of the object is readonly and no   *)
(* method writes any state, so what a call returns does not depend on the  *)
(* calls made before it.                                                   *)
(***************************************************************************)
VARIABLES
    self,   \* the GeoHash object: its readonly fields
    made,   \* how the object was constructed, and from what
    call,   \* the method called on it, with its arguments
    ret     \* what that call returned or threw: a string or a list of
            \* strings in val, a number in count

vars == <<self, made, call, ret>>

\* constructor(coordinate: string)
InitFromString ==
    \E h \in Hashes \cup InvalidHashes :
        /\ self = NewFromString(h)
        /\ made = [from |-> "string", hash |-> h]

\* constructor(coordinate: GeoCoordinate, precision)
InitFromCoordinate ==
    \E c \in Coordinates, p \in Precisions :
        /\ self = NewFromCoordinate(c, p)
        /\ made = [from |-> "coordinate", coordinate |-> c, precision |-> p]

Init ==
    /\ InitFromString \/ InitFromCoordinate
    /\ call = [op |-> "new"]
    /\ ret = Return(<<>>)

\* self.hashString(precision)
HashString ==
    \E p \in Precisions :
        /\ call.op = "new"
        /\ call' = [op |-> "hashString", precision |-> p]
        /\ ret' = Return(hashString(self.coordinate, p))
        /\ UNCHANGED <<self, made>>

\* self.getNeighborAsHashString(direction), hash defaulting to this.geohash
GetNeighbor ==
    \E d \in Directions :
        /\ call.op = "new"
        /\ call' = [op |-> "getNeighborAsHashString", direction |-> d,
                    hash |-> self.geohash]
        /\ ret' = getNeighborAsHashString(d, self.geohash, 1)
        /\ UNCHANGED <<self, made>>

\* self.getAllNeighborsAsHashStrings(), hash defaulting to this.geohash
GetAllNeighbors ==
    /\ call.op = "new"
    /\ call' = [op |-> "getAllNeighborsAsHashStrings", hash |-> self.geohash]
    /\ ret' = getAllNeighborsAsHashStrings(self.geohash, 1)
    /\ UNCHANGED <<self, made>>

Next == HashString \/ GetNeighbor \/ GetAllNeighbors

Spec == Init /\ [][Next]_vars

\* The radius search, from the objects built from the strings RadiusCenters.
InitRadius ==
    /\ \E h \in RadiusCenters :
          /\ self = NewFromString(h)
          /\ made = [from |-> "string", hash |-> h]
    /\ call = [op |-> "new"]
    /\ ret = Return(<<>>)

\* self.countHashesUntilDistance(distance, direction, points)
CountHashes ==
    \E distance \in Distances, d \in {"n", "s", "w"}, points \in Points :
        /\ call.op = "new"
        /\ call' = [op |-> "countHashesUntilDistance", distance |-> distance,
                    direction |-> d, points |-> points]
        /\ ret' = LET r == countHashesUntilDistance(self, distance, d, points, 1)
                   IN  IF r.err = "" THEN [err |-> "", count |-> r.val] ELSE r
        /\ UNCHANGED <<self, made>>

\* self.getAllHashStringsWithinRadius(distance, points)
WithinRadius ==
    \E distance \in Distances, points \in Points :
        /\ call.op = "new"
        /\ call' = [op |-> "getAllHashStringsWithinRadius",
                    distance |-> distance, points |-> points]
        /\ ret' = getAllHashStringsWithinRadius(self, distance, points, 1)
        /\ UNCHANGED <<self, made>>

NextRadius == CountHashes \/ WithinRadius

SpecRadius == InitRadius /\ [][NextRadius]_vars

(* ------------------------ vocabulary of the claims -------------------- *)

Min(a, b) == IF a <= b THEN a ELSE b
Max(a, b) == IF a >= b THEN a ELSE b

\* The bounding box decodeGeohash computes for a hash, by extent.
Box(hash) ==
    LET d == decodeGeohash(hash)
    IN  [ south |-> Min(d[1].lat, d[2].lat),
          north |-> Max(d[1].lat, d[2].lat),
          west  |-> Min(d[1].long, d[2].long),
          east  |-> Max(d[1].long, d[2].long) ]

\* The closed box holds the coordinate on both axes.
Contains(box, c) ==
    /\ box.south <= c.lat /\ c.lat <= box.north
    /\ box.west <= c.long /\ c.long <= box.east

\* A non-empty string over the 32-symbol alphabet.
ValidHash(hash) ==
    /\ Len(hash) >= 1
    /\ \A i \in 1..Len(hash) : hash[i] \in Chars

\* The cell's edge facing `direction` is not a bound of the globe.
StaysOnGlobe(direction, hash) ==
    LET b == Box(hash)
    IN  CASE direction = "n" -> b.north < 90 * Scale
          [] direction = "s" -> b.south > -90 * Scale
          [] direction = "e" -> b.east < 180 * Scale
          [] direction = "w" -> b.west > -180 * Scale

\* No edge of the cell is a bound of the globe.
NotOnGlobalEdge(hash) ==
    \A d \in Cardinals : StaysOnGlobe(d, hash)

\* The box one cell height or one cell width away in `direction`.
Shifted(b, direction) ==
    LET h == b.north - b.south
        w == b.east - b.west
    IN  CASE direction = "n" -> [b EXCEPT !.south = b.north, !.north = b.north + h]
          [] direction = "s" -> [b EXCEPT !.north = b.south, !.south = b.south - h]
          [] direction = "e" -> [b EXCEPT !.west = b.east, !.east = b.east + w]
          [] direction = "w" -> [b EXCEPT !.east = b.west, !.west = b.west - w]

Opposite == [n |-> "s", s |-> "n", e |-> "w", w |-> "e"]

\* The step carries: the last character lies on the border facing
\* `direction`.
Carries(direction, hash) ==
    IndexOf(BORDER[direction][Evenness(hash)], LastChar(hash)) # -1

\* The 5 representative points of the cell a hash names: the 4 corners of
\* its box and its centroid.
CellPoints(hash) ==
    LET b == Box(hash)
    IN  { GeoCoordinate(b.north, b.west), GeoCoordinate(b.north, b.east),
          GeoCoordinate(b.south, b.west), GeoCoordinate(b.south, b.east),
          GeoCoordinate((b.south + b.north) \div 2, (b.west + b.east) \div 2) }

\* How many of the cell's 5 points lie within `distance` of `center`.
CountInRange(hash, center, distance) ==
    Cardinality({p \in CellPoints(hash) : distanceTo(p, center) <= distance})

\* The candidate list the call in `call` generated: the grid of the three
\* extents it probed.
CallCandidates ==
    Candidates(self,
        countHashesUntilDistance(self, call.distance, "n", call.points, 2).val,
        countHashesUntilDistance(self, call.distance, "s", call.points, 2).val,
        countHashesUntilDistance(self, call.distance, "w", call.points, 2).val,
        1).val

\* An extent the call in `call` probed.
CallExtent(direction) ==
    countHashesUntilDistance(self, call.distance, direction, call.points, 2).val

\* The rectangular grid of the probed extents: the rows from the center
\* to the north extent, then the rows from the center's southern neighbor
\* to the south extent, every row spanning the west extent to both sides.
ExtentGrid ==
    SouthRows(RowsLoop("n", self.geohash, 0, CallExtent("n"),
                       CallExtent("w"), <<>>, 1),
              getNeighborAsHashString("s", self.geohash, 2),
              CallExtent("s"), CallExtent("w"), 1)

\* The cardinal step from `hash` to `result` used the rows `row` of the
\* lookup tables: the last character of the result is the NEIGHBORS row's
\* entry for the last character of the hash, and the parent changed
\* exactly when the BORDER row holds that character.
RowUsed(direction, hash, result, row) ==
    /\ LastChar(result)
          = CharAt(BASE32, IndexOf(NEIGHBORS[direction][row], LastChar(hash)))
    /\ AllButLast(result) # AllButLast(hash)
          <=> IndexOf(BORDER[direction][row], LastChar(hash)) # -1

\* The box `inner` lies within the box `outer`, bounds included.
Within(inner, outer) ==
    /\ outer.south <= inner.south /\ inner.north <= outer.north
    /\ outer.west <= inner.west /\ inner.east <= outer.east

(* -------------------------------- claims ------------------------------ *)

\* C1: round-trip soundness.  For a coordinate of the legal domain and a
\* precision of at least 1, the box decoded from the encoded hash holds the
\* coordinate on both axes, bounds included; this covers coordinates on a
\* bisection midpoint (the centroid of an object built from a string is
\* one) and on a bound of the domain.
C1_RoundTrip ==
    /\ (made.from = "coordinate" /\ made.precision >= 1
            /\ InDomain(made.coordinate))
        => Contains(Box(self.geohash), made.coordinate)
    /\ (call.op = "hashString" /\ call.precision >= 1
            /\ InDomain(self.coordinate))
        => Contains(Box(ret.val), self.coordinate)

\* C1's case: a coordinate on the first latitude midpoint and on the
\* eastern bound of the domain has been encoded to two or more characters.
C1_Witness ==
    /\ call.op = "hashString" /\ call.precision >= 2
    /\ made.from = "coordinate"
    /\ self.coordinate.lat = 0 /\ self.coordinate.long = 180 * Scale
    /\ Len(ret.val) = call.precision
    /\ Contains(Box(ret.val), self.coordinate)

\* C2: a cardinal step that does not leave the globe yields the hash of
\* the adjacent cell of the same precision: its box has the extent of the
\* original on the other axis and lies exactly one cell height (n, s) or
\* one cell width (e, w) away, with or without a carry into parent cells,
\* for odd and even lengths.
C2_AdjacentCell ==
    (call.op = "getNeighborAsHashString" /\ call.direction \in Cardinals
        /\ ValidHash(call.hash) /\ StaysOnGlobe(call.direction, call.hash))
    => /\ ret.err = ""
       /\ Len(ret.val) = Len(call.hash)
       /\ Box(ret.val) = Shifted(Box(call.hash), call.direction)

\* C2's case: a step north from a hash of three characters that carries
\* into the parent and from there into the grandparent.
C2_Witness ==
    /\ call.op = "getNeighborAsHashString" /\ call.direction = "n"
    /\ Len(call.hash) = 3
    /\ StaysOnGlobe("n", call.hash)
    /\ Carries("n", call.hash)
    /\ Carries("n", AllButLast(call.hash))
    /\ ret.err = ""
    /\ ret.val[1] # call.hash[1]
    /\ Box(ret.val) = Shifted(Box(call.hash), "n")

\* C3: for every coordinate, inside the legal domain or not, and every
\* precision of at least 1, hashString returns a string of exactly
\* `precision` characters of the alphabet.
C3_EncodedLength ==
    /\ (call.op = "hashString" /\ call.precision >= 1)
        => /\ ret.err = ""
           /\ Len(ret.val) = call.precision
           /\ \A i \in 1..Len(ret.val) : ret.val[i] \in Chars
    /\ (made.from = "coordinate" /\ made.precision >= 1)
        => /\ Len(self.geohash) = made.precision
           /\ \A i \in 1..Len(self.geohash) : self.geohash[i] \in Chars

\* C3's case: a coordinate outside the legal domain has been encoded at
\* the default precision.
C3_Witness ==
    /\ call.op = "hashString" /\ call.precision = DefaultPrecision
    /\ ~InDomain(self.coordinate)
    /\ Len(ret.val) = DefaultPrecision

\* C4: for every non-empty hash over the alphabet and each of the 8
\* directions, getNeighborAsHashString returns a string of the length of
\* the hash, over the alphabet.
C4_NeighborLength ==
    (call.op = "getNeighborAsHashString" /\ ValidHash(call.hash))
    => /\ ret.err = ""
       /\ Len(ret.val) = Len(call.hash)
       /\ \A i \in 1..Len(ret.val) : ret.val[i] \in Chars

\* C5: neighbor inverse.  A cardinal step that does not leave the globe,
\* followed by the step in the opposite direction, gives back the hash,
\* with or without a carry, for both length parities.
C5_NeighborInverse ==
    (call.op = "getNeighborAsHashString" /\ call.direction \in Cardinals
        /\ ValidHash(call.hash) /\ StaysOnGlobe(call.direction, call.hash))
    => /\ ret.err = ""
       /\ getNeighborAsHashString(Opposite[call.direction], ret.val, 1)
            = Return(call.hash)

\* C5's case: a step east from a hash of even length that carries into
\* the parent, and the step west back from its result.
C5_Witness ==
    /\ call.op = "getNeighborAsHashString" /\ call.direction = "e"
    /\ Len(call.hash) = 2
    /\ StaysOnGlobe("e", call.hash)
    /\ Carries("e", call.hash)
    /\ ret.err = ""
    /\ Carries("w", ret.val)
    /\ getNeighborAsHashString("w", ret.val, 1) = Return(call.hash)

\* C6: diagonal composition.  For a hash with no edge on a bound of the
\* globe, the diagonal neighbor is the vertical step followed by the
\* horizontal step, and also the horizontal step followed by the vertical
\* step.
C6_DiagonalComposition ==
    (call.op = "getNeighborAsHashString" /\ call.direction \in Diagonals
        /\ ValidHash(call.hash) /\ NotOnGlobalEdge(call.hash))
    => LET v  == IF call.direction \in {"ne", "nw"} THEN "n" ELSE "s"
           h  == IF call.direction \in {"ne", "se"} THEN "e" ELSE "w"
           vh == getNeighborAsHashString(h,
                     getNeighborAsHashString(v, call.hash, 1).val, 1)
           hv == getNeighborAsHashString(v,
                     getNeighborAsHashString(h, call.hash, 1).val, 1)
       IN  /\ ret.err = ""
           /\ ret = vh
           /\ ret = hv

\* C6's case: the north-east neighbor of a hash that is off every bound
\* of the globe, where both steps carry into the parent.
C6_Witness ==
    /\ call.op = "getNeighborAsHashString" /\ call.direction = "ne"
    /\ ValidHash(call.hash) /\ NotOnGlobalEdge(call.hash)
    /\ Carries("n", call.hash) /\ Carries("e", call.hash)
    /\ ret.err = ""
    /\ AllButLast(ret.val) # AllButLast(call.hash)

\* C7: when getAllHashStringsWithinRadius returns, the center hash is a
\* member of what it returns, for every distance >= 0 and every points
\* value in 1..5.
C7_CenterInResult ==
    (call.op = "getAllHashStringsWithinRadius" /\ ret.err = "")
    => \E i \in 1..Len(ret.val) : ret.val[i] = self.geohash

\* C8: after construction from a non-empty hash, or from a coordinate and
\* a precision of at least 1, northWest holds the greater latitude and the
\* lesser longitude of the two corners decoded.
C8_CornerOrder ==
    ValidHash(self.geohash)
    => /\ self.northWest.lat >= self.southEast.lat
       /\ self.northWest.long <= self.southEast.long

\* C9: getAllNeighborsAsHashStrings returns exactly 8 entries, entry i the
\* neighbor in the i-th direction of (nw, n, ne, e, se, s, sw, w); for a
\* cell with no edge on a bound of the globe they are pairwise distinct
\* and none is the hash itself.
C9_AllNeighbors ==
    (call.op = "getAllNeighborsAsHashStrings" /\ ValidHash(call.hash))
    => /\ ret.err = ""
       /\ Len(ret.val) = 8
       /\ \A i \in 1..8 :
             Return(ret.val[i])
                = getNeighborAsHashString(
                     <<"nw", "n", "ne", "e", "se", "s", "sw", "w">>[i],
                     call.hash, 1)
       /\ NotOnGlobalEdge(call.hash)
            => /\ \A i, j \in 1..8 : i # j => ret.val[i] # ret.val[j]
               /\ \A i \in 1..8 : ret.val[i] # call.hash

\* C10: encoding with a precision of zero or less fails with an
\* InvalidPrecision error and returns no hash string.
C10_InvalidPrecision ==
    (call.op = "hashString" /\ call.precision <= 0)
    => ret.err = "InvalidPrecision"

\* C11: constructing an object from a string that holds a character
\* outside the 32-symbol alphabet, which decodes the string, fails with an
\* InvalidHashCharacter error and builds no bounding box.
C11_InvalidCharacter ==
    (call.op = "new" /\ made.from = "string"
        /\ \E i \in 1..Len(made.hash) : made.hash[i] \notin Chars)
    => ret.err = "InvalidHashCharacter"

\* C12: what getAllHashStringsWithinRadius returns is exactly the cells of
\* the candidate grid with at least `points` of their 5 points (4 corners
\* and centroid) within `distance` of the center cell's centroid: every
\* hash returned has that many, and every candidate that has is returned.
C12_FilterExact ==
    (call.op = "getAllHashStringsWithinRadius" /\ ret.err = "")
    => LET hashes == CallCandidates
       IN  /\ \A i \in 1..Len(ret.val) :
                 CountInRange(ret.val[i], self.centroid, call.distance)
                    >= call.points
           /\ \A j \in 1..Len(hashes) :
                 CountInRange(hashes[j], self.centroid, call.distance)
                    >= call.points
                 => \E i \in 1..Len(ret.val) : ret.val[i] = hashes[j]

\* C12's case: a search for at least 3 points in range returned some of
\* its candidates and dropped others, one of them with 1 or 2 points in
\* range.
C12_Witness ==
    /\ call.op = "getAllHashStringsWithinRadius" /\ ret.err = ""
    /\ call.points = 3
    /\ Len(ret.val) >= 2
    /\ LET hashes == CallCandidates
       IN  /\ Len(ret.val) < Len(hashes)
           /\ \E j \in 1..Len(hashes) :
                 /\ CountInRange(hashes[j], self.centroid, call.distance)
                       \in {1, 2}
                 /\ \A i \in 1..Len(ret.val) : ret.val[i] # hashes[j]

\* C13: the carry recursion of getNeighborAsHashString terminates for
\* every non-empty hash over the alphabet and every direction: the call
\* returns a string and does not exhaust the call stack, also when every
\* character of the hash lies on the border facing the direction.
C13_CarryTerminates ==
    (call.op = "getNeighborAsHashString" /\ ValidHash(call.hash))
    => ret.err # "RangeError"

\* C14: the candidate set of getAllHashStringsWithinRadius is the full
\* rectangular grid of the probed extents: the rows north of the center
\* are bounded by the north extent and the rows south of it by the south
\* extent, whatever the north extent is, each row spanning the west extent
\* to both sides.
C14_SouthExtent ==
    (call.op = "getAllHashStringsWithinRadius" /\ ret.err = ""
        /\ ExtentGrid.err = "")
    => LET grid   == ExtentGrid.val
           hashes == CallCandidates
       IN  {grid[j] : j \in 1..Len(grid)}
              = {hashes[j] : j \in 1..Len(hashes)}

\* C15, as stated: the rows of the lookup tables a cardinal step uses are
\* selected by the parity of the 1-indexed position of the last character,
\* position 1 being 'even': a hash of odd length uses the 'even' rows and
\* a hash of even length the 'odd' rows.
C15_PositionOneEven ==
    (call.op = "getNeighborAsHashString" /\ call.direction \in Cardinals
        /\ ValidHash(call.hash) /\ ret.err = "")
    => RowUsed(call.direction, call.hash, ret.val,
               IF Len(call.hash) % 2 = 1 THEN "even" ELSE "odd")

\* C15, amended: position 1 is 'odd'.  A hash of odd length (length 1
\* among them) uses the 'odd' rows of NEIGHBORS and BORDER and a hash of
\* even length uses the 'even' rows.
C15_PositionOneOdd ==
    (call.op = "getNeighborAsHashString" /\ call.direction \in Cardinals
        /\ ValidHash(call.hash) /\ ret.err = "")
    => RowUsed(call.direction, call.hash, ret.val,
               IF Len(call.hash) % 2 = 1 THEN "odd" ELSE "even")

\* C15's case: a step north from a hash of one character has returned
\* the entry of the 'odd' row, which is not the entry of the 'even' row.
C15_Witness ==
    /\ call.op = "getNeighborAsHashString" /\ call.direction = "n"
    /\ Len(call.hash) = 1 /\ ValidHash(call.hash)
    /\ ret.err = ""
    /\ RowUsed("n", call.hash, ret.val, "odd")
    /\ ~RowUsed("n", call.hash, ret.val, "even")

\* C16: raising points never adds cells.  For the same center and
\* distance, what getAllHashStringsWithinRadius(distance, k + 1) returns
\* is a subset of what getAllHashStringsWithinRadius(distance, k) returns,
\* for every k in 1..4.
C16_MonotoneInPoints ==
    (call.op = "getAllHashStringsWithinRadius" /\ call.points >= 2
        /\ ret.err = "")
    => LET fewer == getAllHashStringsWithinRadius(self, call.distance,
                                                  call.points - 1, 1)
       IN  /\ fewer.err = ""
           /\ \A i \in 1..Len(ret.val) :
                 \E j \in 1..Len(fewer.val) : fewer.val[j] = ret.val[i]

\* C17: hierarchical prefix property.  For every coordinate and
\* precisions 1 <= p < q, hashString(p) is the prefix of length p of
\* hashString(q), and the box decoded from the longer hash lies within the
\* box decoded from the shorter one.
C17_Prefix ==
    (call.op = "hashString" /\ call.precision >= 2)
    => LET longer == Box(ret.val)
       IN  \A p \in 1..(call.precision - 1) :
              LET shorter == hashString(self.coordinate, p)
              IN  /\ shorter = SubSeq(ret.val, 1, p)
                  /\ Within(longer, Box(shorter))

\* C17's case: the coordinate of the tests' White House has been encoded
\* at precision 8 to "dqcjqcps", and encodes at precision 7 to "dqcjqcp".
C17_Witness ==
    /\ call.op = "hashString" /\ call.precision = 8
    /\ self.coordinate = WhiteHouse
    /\ ret.val = <<"d","q","c","j","q","c","p","s">>
    /\ hashString(self.coordinate, 7) = <<"d","q","c","j","q","c","p">>
    /\ Within(Box(ret.val), Box(hashString(self.coordinate, 7)))

\* C18: re-encoding is the identity on hashes.  An object constructed
\* from a non-empty string h over the alphabet has the centroid of h's
\* decoded box as its coordinate, and hashString(len(h)) on it returns h.
C18_ReEncode ==
    (made.from = "string" /\ ValidHash(made.hash))
    => /\ LET b == Box(made.hash)
          IN  self.coordinate
                 = GeoCoordinate((b.south + b.north) \div 2,
                                 (b.west + b.east) \div 2)
       /\ (call.op = "hashString" /\ call.precision = Len(made.hash))
             => ret = Return(made.hash)

\* C18's case: the object built from the tests' "dqcjqcps" has been
\* encoded at precision 8 and the string returned is "dqcjqcps".
C18_Witness ==
    /\ made.from = "string"
    /\ made.hash = <<"d","q","c","j","q","c","p","s">>
    /\ call.op = "hashString" /\ call.precision = 8
    /\ ret.val = made.hash

\* C19: getAllHashStringsWithinRadius terminates for every valid center,
\* every distance >= 0 and every points in 1..5: each probe
\* (countHashesUntilDistance) stops after finitely many neighbor steps and
\* returns its extent, and the search returns its list, also when a probe
\* reaches a cell on the northern, southern or western bound of the globe
\* while the count is still at least `points`.
C19_SearchTerminates ==
    (call.op \in {"countHashesUntilDistance", "getAllHashStringsWithinRadius"}
        /\ ValidHash(self.geohash))
    => ret.err = ""

====
